---- MODULE Spec2Model ----
(***************************************************************************)
(* A model of the ucxx completion engine around one UCXXEndpoint: the      *)
(* endpoint (error callback, destructor, send/receive calls), the stream   *)
(* and tag transfer helpers that register delayed notification requests,   *)
(* the worker that drains them on the progress owner, and the transport    *)
(* (UCP), which is external and modelled as nondeterministic outcomes.     *)
(***************************************************************************)
EXTENDS Integers, Sequences, FiniteSets, TLC

\* ------------------------------------------------------------------ bounds
\* Number of send/receive calls made on the endpoint.
MaxReq == 2
\* Number of times the transport fires the endpoint's error callback.
MaxErr == 2

Req == 1..MaxReq

\* ------------------------------------------------------------- value sets
\* The four progress strategies of a worker.
Modes == {"Blocking", "Polling", "Thread", "ThreadPolling"}
ThreadModes == {"Thread", "ThreadPolling"}
\* Threads that may call into the endpoint: the progress owner or another one.
Threads == {"owner", "other"}
\* ucs_status_t values the error callback is called with.
ErrKinds == {"UCS_ERR_CONNECTION_RESET", "UCS_ERR_IO_ERROR"}
\* What the transport returns from a submit call.
SubmitResults == {"UCS_OK", "UCS_INPROGRESS", "UCS_ERR_IO_ERROR"}
\* What the transport reports to a completion callback.
CallbackStatuses == {"UCS_OK", "UCS_ERR_IO_ERROR"}
\* Buffer lengths of the calls.
Lengths == {1024}
\* The send/receive entry points of UCXXEndpoint.
Apis == {"stream_send", "stream_recv", "tag_send", "tag_recv"}
\* A delayed notification request, and what the transport keeps of a submitted
\* operation: the request to populate, the entry point (hence the populate
\* function and the completion callback) and the buffer length.
Entry(r, api, length) == [request |-> r, api |-> api, length |-> length]

\* The worker argument of the factory functions: a null pointer, a worker whose
\* get_handle() is null, an initialised worker.
WorkerArgs == {"nullptr", "no_handle", "valid"}
\* The listener argument: as for a worker, and a listener with a handle whose
\* parent worker has none.
ListenerArgs == {"nullptr", "no_handle", "no_worker", "valid"}
\* The address argument: null, without handle, of length 0, usable.
AddressArgs == {"nullptr", "no_handle", "empty", "valid"}
\* The host name argument: gethostbyname fails, sockaddr_utils_set fails, usable.
HostnameArgs == {"unknown", "no_memory", "valid"}
\* A call of one of the three factory functions.
FactoryCall(factory, parent, target, endpoint_error_handling) ==
    [factory |-> factory, parent |-> parent, target |-> target,
     endpoint_error_handling |-> endpoint_error_handling]
FactoryCalls ==
    {FactoryCall("createEndpointFromHostname", w, h, b) :
        w \in WorkerArgs, h \in HostnameArgs, b \in BOOLEAN}
    \cup {FactoryCall("createEndpointFromConnRequest", l, "conn_request", b) :
        l \in ListenerArgs, b \in BOOLEAN}
    \cup {FactoryCall("createEndpointFromWorkerAddress", w, a, b) :
        w \in WorkerArgs, a \in AddressArgs, b \in BOOLEAN}
\* No factory call is running.
NoCall == FactoryCall("none", "none", "none", TRUE)
\* What ucp_ep_create returns.
EpCreateResults == {"UCS_OK", "UCS_ERR_IO_ERROR"}

Terminal == {"Completed", "Errored", "Cancelled"}
States == {"None", "Created", "Delayed", "Submitted"} \cup Terminal

VARIABLES
    ctorCall,          \* the factory call that creates the endpoint, until it returns
    _handle,           \* UCXXEndpoint::_handle: nullptr or valid
    thrown,            \* the exception the factory call ended with, or none
    mode,              \* the worker's progress strategy
    running,           \* the worker's progress owner has not shut down
    errHandling,       \* UCXXEndpoint::_endpoint_error_handling
    epStatus,          \* error_callback_data_t::status
    closeCallback,     \* error_callback_data_t::closeCallback is set
    pcDtor,            \* position of ~UCXXEndpoint: none, loop, done
    closeReq,          \* the close operation: none, inprogress, done, freed
    closeMode,         \* the mode ucp_ep_close_nb was called with, none before
    nreq,              \* number of send/receive calls made so far
    caller,            \* the thread inside a send/receive call or the destructor's wait
    direction,         \* per request: none, send or recv
    reqState,          \* per request: lifecycle state
    outcome,           \* per request: recorded final status
    future,            \* per request: the attached future
    inCall,            \* requests whose call is inside createRequest: the insert
                       \* into the registry has begun and has not finished
    inflightRequests,  \* UCXXEndpoint::_inflightRequests (live entries)
    delayedQ,          \* the worker's delayed notification entries, oldest first
    registered,        \* history: requests in registration order
    submitted,         \* history: requests in the order handed to the transport
    tpending,          \* entries of transport operations that still owe a callback
    progressed,        \* history: some progress step has run
    progressThreads,   \* history: the threads that have run a progress step
    errCalls,          \* history: firings of the error callback
    cancelCalls,       \* history: runs of the bulk cancellation
    cancelStatus,      \* history: data->status when the cancellation was last triggered
    closeStatus,       \* history: data->status when the close callback was last due
    closeCalls,        \* history, kept by CloseSpec: invocations of the close callback
    resolves,          \* history: per request, terminal transitions taken
    key,               \* per request: the address of its UCXXRequest object, the
                       \* key of its registry entry; 0 before createRequest
    destroyed,         \* requests whose UCXXRequest object has been destroyed
    freeAddr           \* the address the allocator gives out next, 0 for a fresh one

vars == <<ctorCall, _handle, thrown, mode, running, errHandling, epStatus,
          closeCallback, pcDtor, closeReq, closeMode,
          nreq, caller, direction, reqState, outcome, future, inCall,
          inflightRequests, delayedQ, registered, submitted, tpending, progressed,
          progressThreads, errCalls, cancelCalls, cancelStatus, closeStatus, closeCalls,
          resolves, key, destroyed, freeAddr>>

ctorVars == <<ctorCall, _handle, thrown>>
epVars == <<ctorVars, errHandling, epStatus, closeCallback, pcDtor, closeReq,
            closeMode>>
workerVars == <<mode, running>>
histErrVars == <<errCalls, cancelCalls, cancelStatus, closeStatus, closeCalls>>
progressVars == <<progressed, progressThreads>>
identVars == <<key, destroyed, freeAddr>>

\* ------------------------------------------------------------ the endpoint
\* isAlive looking at the status alone.
isAlive_status_only ==
    epStatus = "UCS_OK"

\* UCXXEndpoint::isAlive
isAlive ==
    IF ~errHandling THEN TRUE ELSE epStatus = "UCS_OK"

\* raiseOnError without the test of the error-handling flag.
raiseOnError_unflagged ==
    IF epStatus = "UCS_OK" THEN "none"
    ELSE IF epStatus = "UCS_ERR_CONNECTION_RESET" THEN "UCXXConnectionResetError"
    ELSE "UCXXError"

\* UCXXEndpoint::raiseOnError: the exception it throws, "none" when it returns.
raiseOnError ==
    IF epStatus = "UCS_OK" \/ ~errHandling THEN "none"
    ELSE IF epStatus = "UCS_ERR_CONNECTION_RESET" THEN "UCXXConnectionResetError"
    ELSE "UCXXError"

\* The endpoint object exists and its destructor has not started.
EndpointUsable == _handle = "valid" /\ pcDtor = "none"

\* UCXXEndpoint::getWorker: the worker behind a worker or a listener.
getWorker(c) ==
    IF c.factory = "createEndpointFromConnRequest"
    THEN (IF c.parent = "no_worker" THEN "no_handle" ELSE c.parent)
    ELSE c.parent

\* The constructor with the check of the worker left out.
UCXXEndpoint_unchecked(c, res) ==
    /\ errHandling' = c.endpoint_error_handling
    /\ IF res = "UCS_OK"
       THEN _handle' = "valid" /\ thrown' = "none"
       ELSE _handle' = "nullptr" /\ thrown' = res

\* UCXXEndpoint::UCXXEndpoint: throws when the worker is null or has no handle,
\* before ucp_ep_create; throws the status when ucp_ep_create fails.
UCXXEndpoint(c, res) ==
    IF getWorker(c) \in {"nullptr", "no_handle"}
    THEN /\ thrown' = "Worker not initialized"
         /\ UNCHANGED <<_handle, errHandling>>
    ELSE /\ errHandling' = c.endpoint_error_handling
         /\ IF res = "UCS_OK"
            THEN _handle' = "valid" /\ thrown' = "none"
            ELSE _handle' = "nullptr" /\ thrown' = res

\* createEndpointFromHostname
createEndpointFromHostname(c, res) ==
    IF c.parent \in {"nullptr", "no_handle"}
    THEN thrown' = "Worker not initialized" /\ UNCHANGED <<_handle, errHandling>>
    ELSE IF c.target = "unknown"
    THEN thrown' = "Invalid IP address or hostname" /\ UNCHANGED <<_handle, errHandling>>
    ELSE IF c.target = "no_memory"
    THEN thrown' = "std::bad_alloc" /\ UNCHANGED <<_handle, errHandling>>
    ELSE UCXXEndpoint(c, res)

\* createEndpointFromConnRequest
createEndpointFromConnRequest(c, res) ==
    IF c.parent \in {"nullptr", "no_handle"}
    THEN thrown' = "Worker not initialized" /\ UNCHANGED <<_handle, errHandling>>
    ELSE UCXXEndpoint(c, res)

\* createEndpointFromWorkerAddress
createEndpointFromWorkerAddress(c, res) ==
    IF c.parent \in {"nullptr", "no_handle"}
    THEN thrown' = "Worker not initialized" /\ UNCHANGED <<_handle, errHandling>>
    ELSE IF c.target \in {"nullptr", "no_handle", "empty"}
    THEN thrown' = "Address not initialized" /\ UNCHANGED <<_handle, errHandling>>
    ELSE UCXXEndpoint(c, res)

\* The factory call that creates the endpoint, from its call to its return.
createEndpoint(res) ==
    /\ ctorCall # NoCall
    /\ ctorCall' = NoCall
    /\ CASE ctorCall.factory = "createEndpointFromHostname" ->
               createEndpointFromHostname(ctorCall, res)
         [] ctorCall.factory = "createEndpointFromConnRequest" ->
               createEndpointFromConnRequest(ctorCall, res)
         [] ctorCall.factory = "createEndpointFromWorkerAddress" ->
               createEndpointFromWorkerAddress(ctorCall, res)
    /\ UNCHANGED <<workerVars, histErrVars, identVars, epStatus, closeCallback, pcDtor, closeReq,
                   closeMode,
                   nreq, caller, direction, reqState, outcome, future, inCall,
                   inflightRequests, delayedQ, registered, submitted,
                   tpending, progressVars, resolves>>

\* ------------------------------------------------------------- the worker
\* UCXXWorker::registerDelayedNotificationRequest: thread-safe enqueue.
registerDelayedNotificationRequest(q, e) == Append(q, e)

DirectionOf(api) == IF api \in {"stream_send", "tag_send"} THEN "send" ELSE "recv"

\* ------------------------------------------------------ transfer helpers
\* stream_msg, registering the entry ahead of the ones already queued.
stream_msg_front(r, api, length) ==
    /\ direction' = [direction EXCEPT ![r] = DirectionOf(api)]
    /\ future' = [future EXCEPT ![r] = "pending"]
    /\ outcome' = [outcome EXCEPT ![r] = "UCS_INPROGRESS"]
    /\ reqState' = [reqState EXCEPT ![r] = "Delayed"]
    /\ delayedQ' = <<Entry(r, api, length)>> \o delayedQ
    /\ registered' = Append(registered, r)
    /\ UNCHANGED <<submitted, tpending>>

\* stream_msg, handing the operation to the transport inside the call.
stream_msg_direct(r, api, length) ==
    /\ direction' = [direction EXCEPT ![r] = DirectionOf(api)]
    /\ future' = [future EXCEPT ![r] = "pending"]
    /\ outcome' = [outcome EXCEPT ![r] = "UCS_INPROGRESS"]
    /\ reqState' = [reqState EXCEPT ![r] = "Submitted"]
    /\ submitted' = Append(submitted, r)
    /\ tpending' = tpending \cup {Entry(r, api, length)}
    /\ UNCHANGED <<delayedQ, registered>>

\* stream_msg: makes the ucxx_request_t (future attached, no user callback),
\* fills a delayed notification request and registers it with the worker.
\* Nothing is handed to the transport here.
stream_msg(r, api, length) ==
    /\ direction' = [direction EXCEPT ![r] = DirectionOf(api)]
    /\ future' = [future EXCEPT ![r] = "pending"]
    /\ outcome' = [outcome EXCEPT ![r] = "UCS_INPROGRESS"]
    /\ reqState' = [reqState EXCEPT ![r] = "Delayed"]
    /\ delayedQ' = registerDelayedNotificationRequest(delayedQ, Entry(r, api, length))
    /\ registered' = Append(registered, r)
    /\ UNCHANGED <<submitted, tpending>>

\* tag_msg: the tag counterpart of stream_msg.
tag_msg(r, api, length) ==
    /\ direction' = [direction EXCEPT ![r] = DirectionOf(api)]
    /\ future' = [future EXCEPT ![r] = "pending"]
    /\ outcome' = [outcome EXCEPT ![r] = "UCS_INPROGRESS"]
    /\ reqState' = [reqState EXCEPT ![r] = "Delayed"]
    /\ delayedQ' = registerDelayedNotificationRequest(delayedQ, Entry(r, api, length))
    /\ registered' = Append(registered, r)
    /\ UNCHANGED <<submitted, tpending>>

\* What every send/receive call leaves alone until createRequest runs.
CallFrame(r, thread) ==
    /\ EndpointUsable
    /\ nreq < MaxReq
    /\ r = nreq + 1
    /\ nreq' = r
    /\ caller' = thread
    /\ inCall' = inCall \cup {r}
    /\ UNCHANGED <<epVars, workerVars, histErrVars, identVars, inflightRequests,
                   progressVars, resolves>>

\* UCXXEndpoint::stream_send, up to the return of stream_msg.
stream_send(r, length, thread) ==
    /\ CallFrame(r, thread)
    /\ stream_msg(r, "stream_send", length)

\* UCXXEndpoint::stream_recv, up to the return of stream_msg.
stream_recv(r, length, thread) ==
    /\ CallFrame(r, thread)
    /\ stream_msg(r, "stream_recv", length)

\* UCXXEndpoint::tag_send, up to the return of tag_msg.
tag_send(r, length, thread) ==
    /\ CallFrame(r, thread)
    /\ tag_msg(r, "tag_send", length)

\* UCXXEndpoint::tag_recv, up to the return of tag_msg.
tag_recv(r, length, thread) ==
    /\ CallFrame(r, thread)
    /\ tag_msg(r, "tag_recv", length)

\* UCXXEndpoint::createRequest: wraps the request and inserts it in the registry,
\* whatever the request's state by then; the second half of every send/receive call.
\* Wrapping the request touches nothing shared, so the call is taken to be at the
\* insert from the return of *_msg on; this step is the end of the insert, which
\* holds no lock, and the return of the call.
\* The UCXXRequest object is made here; its address, the key of the entry, is a
\* fresh one (the request's own number) or the one the allocator has free. The
\* registry's insert leaves an entry that is already under the key in place.
createRequest(r) ==
    /\ r \in inCall
    /\ inCall' = inCall \ {r}
    /\ LET req == IF freeAddr # 0 THEN freeAddr ELSE r IN
         /\ key' = [key EXCEPT ![r] = req]
         /\ inflightRequests' =
                IF \E q \in inflightRequests : key[q] = req
                THEN inflightRequests
                ELSE inflightRequests \cup {r}
    /\ freeAddr' = 0
    /\ caller' = "none"
    /\ UNCHANGED <<epVars, workerVars, histErrVars, destroyed, nreq, direction, reqState,
                   outcome, future, delayedQ, registered, submitted,
                   tpending, progressVars, resolves>>

\* ~UCXXRequest leaving the entry under its address in the registry.
destroyRequest_keep_entry(r, reuse) ==
    /\ r \in 1..nreq
    /\ r \notin inCall
    /\ r \notin destroyed
    /\ reqState[r] \in Terminal
    /\ destroyed' = destroyed \cup {r}
    /\ freeAddr' = IF reuse THEN key[r] ELSE freeAddr
    /\ UNCHANGED <<epVars, workerVars, histErrVars, key, inflightRequests, nreq, caller,
                   direction, reqState, outcome, future, inCall, delayedQ, registered,
                   submitted, tpending, progressVars, resolves>>

\* ~UCXXRequest: the caller drops the last reference to a request that has
\* reached a terminal state. The destructor erases the entry under the
\* request's address from the registry; the allocator may then give the
\* address to the next UCXXRequest object.
destroyRequest(r, reuse) ==
    /\ r \in 1..nreq
    /\ r \notin inCall
    /\ r \notin destroyed
    /\ reqState[r] \in Terminal
    /\ destroyed' = destroyed \cup {r}
    /\ inflightRequests' = {q \in inflightRequests : key[q] # key[r]}
    /\ freeAddr' = IF reuse THEN key[r] ELSE freeAddr
    /\ UNCHANGED <<epVars, workerVars, histErrVars, key, nreq, caller,
                   direction, reqState, outcome, future, inCall, delayedQ, registered,
                   submitted, tpending, progressVars, resolves>>

\* UCXXEndpoint::setCloseCallback
setCloseCallback ==
    /\ EndpointUsable
    /\ closeCallback' = TRUE
    /\ UNCHANGED <<ctorVars, workerVars, histErrVars, identVars, errHandling, epStatus, pcDtor, closeReq,
                   closeMode,
                   nreq, caller, direction, reqState, outcome, future, inCall,
                   inflightRequests, delayedQ, registered, submitted,
                   tpending, progressVars, resolves>>

\* ---------------------------------------------------- request resolution
StateOf(st) == IF st = "UCS_OK" THEN "Completed" ELSE "Errored"

\* UCXXRequest::callback / _callback: the terminal transition of a request. It
\* takes effect once; on a request that is already terminal it changes nothing.
callback(r, st) ==
    IF reqState[r] \in Terminal
    THEN UNCHANGED <<reqState, outcome, future, inflightRequests, resolves>>
    ELSE /\ reqState' = [reqState EXCEPT ![r] = StateOf(st)]
         /\ outcome' = [outcome EXCEPT ![r] = st]
         /\ future' = [future EXCEPT ![r] = st]
         /\ inflightRequests' = inflightRequests \ {r}
         /\ resolves' = [resolves EXCEPT ![r] = @ + 1]

\* A completion callback that writes the outcome itself, terminal or not.
callback_overwrite(r, st) ==
    /\ reqState' = [reqState EXCEPT ![r] = StateOf(st)]
    /\ outcome' = [outcome EXCEPT ![r] = st]
    /\ future' = [future EXCEPT ![r] = st]
    /\ inflightRequests' = inflightRequests \ {r}
    /\ resolves' = [resolves EXCEPT ![r] = @ + 1]

\* The value of a future resolved with a byte count.
ByteCount(n) == ToString(n)

\* A receive callback that hands the byte count to the future.
callback_length(r, st, length) ==
    IF reqState[r] \in Terminal
    THEN UNCHANGED <<reqState, outcome, future, inflightRequests, resolves>>
    ELSE /\ reqState' = [reqState EXCEPT ![r] = StateOf(st)]
         /\ outcome' = [outcome EXCEPT ![r] = st]
         /\ future' = [future EXCEPT ![r] = IF st = "UCS_OK" THEN ByteCount(length) ELSE st]
         /\ inflightRequests' = inflightRequests \ {r}
         /\ resolves' = [resolves EXCEPT ![r] = @ + 1]

\* stream_send_callback
stream_send_callback(r, st) == callback(r, st)

\* stream_recv_callback: the length the transport reports is not passed on.
stream_recv_callback(r, st, length) == callback(r, st)

\* UCXXRequestTag::tag_send_callback
tag_send_callback(r, st) == callback(r, st)

\* UCXXRequestTag::tag_recv_callback: the receive info is not passed on.
tag_recv_callback(r, st, length) == callback(r, st)

\* request_wait / UCXXRequest::process: what follows the submit call. An
\* in-progress handle leaves the request to its callback; an immediate outcome
\* (success, or the submission failing) is the request's terminal transition.
request_wait(e, res) ==
    IF res = "UCS_INPROGRESS"
    THEN /\ tpending' = tpending \cup {e}
         /\ reqState' = [reqState EXCEPT ![e.request] =
                             IF @ \in Terminal THEN @ ELSE "Submitted"]
         /\ UNCHANGED <<outcome, future, inflightRequests, resolves>>
    ELSE /\ tpending' = tpending
         /\ callback(e.request, res)

\* stream_request followed by a second stream_request for the same entry.
populate_twice(e, res) ==
    /\ submitted' = Append(Append(submitted, e.request), e.request)
    /\ request_wait(e, res)

\* populate_delayed_notification_stream_request trying a rejected submission a
\* second time, and leaving the request with the transport after that.
populate_retry(e, res) ==
    IF res \in {"UCS_OK", "UCS_INPROGRESS"}
    THEN /\ submitted' = Append(submitted, e.request)
         /\ request_wait(e, res)
    ELSE /\ submitted' = Append(Append(submitted, e.request), e.request)
         /\ request_wait(e, "UCS_INPROGRESS")

\* populate_delayed_notification_stream_request: one stream_request for the
\* entry's request, then request_wait on what the transport returned.
populate_delayed_notification_stream_request(e, res) ==
    /\ submitted' = Append(submitted, e.request)
    /\ request_wait(e, res)

\* UCXXRequestTag::populateNotificationRequest: one UCXXRequestTag::request for
\* the entry's request, then UCXXRequest::process on what the transport returned.
populateNotificationRequest(e, res) ==
    /\ submitted' = Append(submitted, e.request)
    /\ request_wait(e, res)

IsStream(e) == e.api \in {"stream_send", "stream_recv"}

\* ------------------------------------------------------- progress steps
\* Who may run a progress step: the worker's progress owner while the worker
\* runs, or the thread inside ~UCXXEndpoint's wait loop.
Drives(by) ==
    \/ by = "owner" /\ running /\ caller # "owner"
    \/ by = "dtor" /\ pcDtor = "loop" /\ closeReq = "inprogress"

\* The thread that runs the step: the progress owner, or the thread that is
\* destroying the endpoint.
ThreadOf(by) == IF by = "owner" THEN "owner" ELSE caller

\* A progress step has run on the thread of its driver.
progressStep(by) ==
    /\ progressed' = TRUE
    /\ progressThreads' = progressThreads \cup {ThreadOf(by)}

\* The progress owner's drain of the delayed notification requests: the oldest
\* entry is popped and its populate function run, which submits it.
drainDelayed(res) ==
    /\ Drives("owner")
    /\ delayedQ # <<>>
    /\ LET e == Head(delayedQ) IN
         /\ delayedQ' = Tail(delayedQ)
         /\ IF IsStream(e)
            THEN populate_delayed_notification_stream_request(e, res)
            ELSE populateNotificationRequest(e, res)
    /\ progressStep("owner")
    /\ UNCHANGED <<epVars, workerVars, histErrVars, identVars, nreq, caller, direction, inCall,
                   registered>>

\* The transport, during a progress step, completing an outstanding operation:
\* it calls the completion callback given at submission, once.
transportCompletion(by, e, st) ==
    /\ Drives(by)
    /\ e \in tpending
    /\ tpending' = tpending \ {e}
    /\ CASE e.api = "stream_send" -> stream_send_callback(e.request, st)
         [] e.api = "stream_recv" -> stream_recv_callback(e.request, st, e.length)
         [] e.api = "tag_send" -> tag_send_callback(e.request, st)
         [] e.api = "tag_recv" -> tag_recv_callback(e.request, st, e.length)
    /\ progressStep(by)
    /\ UNCHANGED <<epVars, workerVars, histErrVars, identVars, nreq, caller, direction, inCall,
                   delayedQ, registered, submitted>>

\* UCXXWorker::scheduleRequestCancel: the bulk cancellation of a registry.
\* Every entry whose request is alive and not terminal is cancelled: it becomes
\* Cancelled, its future gets the cancellation outcome, and it leaves the registry.
scheduleRequestCancel(reqs) ==
    LET hit == {r \in reqs : reqState[r] \notin Terminal} IN
    /\ reqState' = [r \in Req |-> IF r \in hit THEN "Cancelled" ELSE reqState[r]]
    /\ outcome' = [r \in Req |-> IF r \in hit THEN "UCS_ERR_CANCELED" ELSE outcome[r]]
    /\ future' = [r \in Req |-> IF r \in hit THEN "UCS_ERR_CANCELED" ELSE future[r]]
    /\ resolves' = [r \in Req |-> IF r \in hit THEN resolves[r] + 1 ELSE resolves[r]]
    /\ inflightRequests' = inflightRequests \ hit
    /\ cancelCalls' = cancelCalls + 1

\* _err_cb without the cancellation of the inflight requests.
err_cb_no_cancel(st) ==
    /\ epStatus' = st
    /\ UNCHANGED <<reqState, outcome, future, resolves, inflightRequests, cancelCalls,
                   cancelStatus>>
    /\ closeStatus' = st
    /\ closeCallback' = FALSE

\* _err_cb recording the status last, after the cancellation and the close
\* callback.
err_cb_status_last(st) ==
    /\ cancelStatus' = epStatus
    /\ scheduleRequestCancel(inflightRequests)
    /\ closeStatus' = epStatus
    /\ closeCallback' = FALSE
    /\ epStatus' = st

\* _err_cb leaving the close callback set after calling it.
err_cb_keep_callback(st) ==
    /\ epStatus' = st
    /\ cancelStatus' = st
    /\ scheduleRequestCancel(inflightRequests)
    /\ closeStatus' = st
    /\ closeCallback' = closeCallback

\* _err_cb: records the status, has the worker cancel the endpoint's inflight
\* requests, then calls the close callback, if one is set, and clears it. The
\* cancellation (line 50) and the close callback (lines 51-52) find the status
\* that line 49 recorded.
_err_cb(st) ==
    /\ epStatus' = st
    /\ cancelStatus' = st
    /\ scheduleRequestCancel(inflightRequests)
    /\ closeStatus' = st
    /\ closeCallback' = FALSE

\* The transport, during a progress step, reporting a failure of the connection.
connectionError(by, st) ==
    /\ Drives(by)
    /\ EndpointUsable
    /\ errCalls < MaxErr
    /\ errCalls' = errCalls + 1
    /\ _err_cb(st)
    /\ progressStep(by)
    /\ UNCHANGED <<ctorVars, workerVars, errHandling, pcDtor, closeReq, closeMode, nreq, caller,
                   direction, inCall, delayedQ, registered, submitted, tpending,
                   closeCalls, identVars>>

\* _err_cb with its call of the close callback counted: the callback is called
\* when one is set (lines 51-52), and not otherwise.
err_cb_counted(st) ==
    /\ _err_cb(st)
    /\ closeCalls' = IF closeCallback THEN closeCalls + 1 ELSE closeCalls

\* connectionError, keeping the count of the close callback's invocations.
connectionErrorCounted(by, st) ==
    /\ Drives(by)
    /\ EndpointUsable
    /\ errCalls < MaxErr
    /\ errCalls' = errCalls + 1
    /\ err_cb_counted(st)
    /\ progressStep(by)
    /\ UNCHANGED <<ctorVars, workerVars, errHandling, pcDtor, closeReq, closeMode, nreq, caller,
                   direction, inCall, delayedQ, registered, submitted, tpending,
                   identVars>>

\* ------------------------------------------------------ ~UCXXEndpoint
\* The close mode ~UCXXEndpoint picks: forced, whether or not error handling is
\* on and an error was recorded.
close_mode ==
    IF errHandling /\ epStatus # "UCS_OK"
    THEN "UCP_EP_CLOSE_MODE_FORCE"
    ELSE "UCP_EP_CLOSE_MODE_FORCE"

\* ~UCXXEndpoint up to the result of ucp_ep_close_nb (always a forced close): a
\* request pointer starts the wait loop, any other result ends the destructor.
Destructor_close(res, thread) ==
    /\ EndpointUsable
    /\ inCall = {}
    /\ closeMode' = close_mode
    /\ IF res = "UCS_INPROGRESS"
       THEN pcDtor' = "loop" /\ closeReq' = "inprogress" /\ caller' = thread
       ELSE pcDtor' = "done" /\ closeReq' = "none" /\ caller' = "none"
    /\ UNCHANGED <<ctorVars, workerVars, histErrVars, identVars, errHandling, epStatus, closeCallback,
                   nreq, direction, reqState, outcome, future, inCall,
                   inflightRequests, delayedQ, registered, submitted,
                   tpending, progressVars, resolves>>

\* The transport, during a progress step, finishing the close operation.
closeCompletion(by) ==
    /\ Drives(by)
    /\ closeReq = "inprogress"
    /\ closeReq' = "done"
    /\ progressStep(by)
    /\ UNCHANGED <<ctorVars, workerVars, histErrVars, identVars, errHandling, epStatus, closeCallback,
                   pcDtor, closeMode, nreq, caller, direction, reqState, outcome, future, inCall,
                   inflightRequests, delayedQ, registered, submitted,
                   tpending, resolves>>

\* ~UCXXEndpoint leaving the wait loop without ucp_request_free.
Destructor_leak ==
    /\ pcDtor = "loop"
    /\ closeReq = "done"
    /\ closeReq' = "done"
    /\ pcDtor' = "done"
    /\ caller' = "none"
    /\ UNCHANGED <<ctorVars, workerVars, histErrVars, identVars, errHandling, epStatus, closeCallback,
                   closeMode, nreq, direction, reqState, outcome, future, inCall,
                   inflightRequests, delayedQ, registered, submitted,
                   tpending, progressVars, resolves>>

\* ~UCXXEndpoint leaving the wait loop: ucp_request_free of the close operation.
Destructor_free ==
    /\ pcDtor = "loop"
    /\ closeReq = "done"
    /\ closeReq' = "freed"
    /\ pcDtor' = "done"
    /\ caller' = "none"
    /\ UNCHANGED <<ctorVars, workerVars, histErrVars, identVars, errHandling, epStatus, closeCallback,
                   closeMode,
                   nreq, direction, reqState, outcome, future, inCall,
                   inflightRequests, delayedQ, registered, submitted,
                   tpending, progressVars, resolves>>

\* ------------------------------------------------------ the worker's end
\* The worker shutting down, which its endpoints keep from happening while they
\* exist: it first drains the delayed entries and waits for the outstanding
\* transport operations to report.
stopWorker ==
    /\ running
    /\ pcDtor = "done"
    /\ delayedQ = <<>>
    /\ tpending = {}
    /\ running' = FALSE
    /\ UNCHANGED <<epVars, mode, histErrVars, identVars, nreq, caller, direction, reqState, outcome,
                   future, inCall, inflightRequests, delayedQ,
                   registered, submitted, tpending, progressVars, resolves>>

\* ------------------------------------------------------ specification
Init ==
    /\ ctorCall \in FactoryCalls
    /\ _handle = "nullptr"
    /\ thrown = "none"
    /\ mode \in Modes
    /\ running = TRUE
    /\ errHandling = TRUE
    /\ epStatus = "UCS_OK"
    /\ closeCallback = FALSE
    /\ pcDtor = "none"
    /\ closeReq = "none"
    /\ closeMode = "none"
    /\ nreq = 0
    /\ caller = "none"
    /\ direction = [r \in Req |-> "none"]
    /\ reqState = [r \in Req |-> "None"]
    /\ outcome = [r \in Req |-> "none"]
    /\ future = [r \in Req |-> "none"]
    /\ inCall = {}
    /\ inflightRequests = {}
    /\ delayedQ = <<>>
    /\ registered = <<>>
    /\ submitted = <<>>
    /\ tpending = {}
    /\ progressed = FALSE
    /\ progressThreads = {}
    /\ errCalls = 0
    /\ cancelCalls = 0
    /\ cancelStatus = "none"
    /\ closeStatus = "none"
    /\ closeCalls = 0
    /\ resolves = [r \in Req |-> 0]
    /\ key = [r \in Req |-> 0]
    /\ destroyed = {}
    /\ freeAddr = 0

Create == \E res \in EpCreateResults : createEndpoint(res)

Call ==
    \E r \in Req, length \in Lengths, thread \in Threads :
        \/ stream_send(r, length, thread)
        \/ stream_recv(r, length, thread)
        \/ tag_send(r, length, thread)
        \/ tag_recv(r, length, thread)

Return == \E r \in Req : createRequest(r)

Drain == \E res \in SubmitResults : drainDelayed(res)

Completion ==
    \E by \in {"owner", "dtor"}, e \in tpending, st \in CallbackStatuses :
        transportCompletion(by, e, st)

ConnectionError ==
    \E by \in {"owner", "dtor"}, st \in ErrKinds : connectionError(by, st)

CloseCompletion == \E by \in {"owner", "dtor"} : closeCompletion(by)

Destroy == \E res \in SubmitResults, thread \in Threads : Destructor_close(res, thread)

Next ==
    \/ Create
    \/ Call
    \/ Return
    \/ setCloseCallback
    \/ Drain
    \/ Completion
    \/ ConnectionError
    \/ CloseCompletion
    \/ Destroy
    \/ Destructor_free
    \/ stopWorker

Spec == Init /\ [][Next]_vars

\* The progress owner keeps stepping (the dedicated thread's loop in the thread
\* modes, the caller's repeated progress calls in the others): it keeps draining
\* the delayed entries, and the transport reports every operation it was handed.
\* A send/receive call runs to its return, and so does the destructor once the
\* transport has finished the close operation.
FairSpec ==
    /\ Spec
    /\ WF_vars(Return)
    /\ WF_vars(Drain)
    /\ WF_vars(Completion)
    /\ WF_vars(CloseCompletion)
    /\ WF_vars(Destructor_free)

\* The same program with the invocations of the close callback counted.
ConnectionErrorCounted ==
    \E by \in {"owner", "dtor"}, st \in ErrKinds : connectionErrorCounted(by, st)

CloseNext ==
    \/ Create
    \/ Call
    \/ Return
    \/ setCloseCallback
    \/ Drain
    \/ Completion
    \/ ConnectionErrorCounted
    \/ CloseCompletion
    \/ Destroy
    \/ Destructor_free
    \/ stopWorker

CloseSpec == Init /\ [][CloseNext]_vars

\* The endpoint in use, with the callers dropping their requests and the
\* allocator reusing the addresses of destroyed UCXXRequest objects: the
\* operations that make, resolve and destroy requests. Setting a close callback
\* and destroying the endpoint, which do not touch the registry, are left to
\* Spec.
Release == \E r \in Req, reuse \in BOOLEAN : destroyRequest(r, reuse)

ReuseNext ==
    \/ Create
    \/ Call
    \/ Return
    \/ Drain
    \/ Completion
    \/ ConnectionError
    \/ Release

ReuseSpec == Init /\ [][ReuseNext]_vars

\* ------------------------------------------------------ helpers of the claims
InSeq(x, q) == \E i \in 1..Len(q) : q[i] = x
Count(x, q) == Cardinality({i \in 1..Len(q) : q[i] = x})
Queued(r) == Cardinality({i \in 1..Len(delayedQ) : delayedQ[i].request = r})
Issued == 1..nreq
AtTransport(r) == \E e \in tpending : e.request = r
IsRecvEntry(e) == e.api \in {"stream_recv", "tag_recv"}

\* C1: once an endpoint with error handling enabled has a non-ok status, a
\* send/receive call on it fails at once: no request is made, no delayed entry
\* is registered and nothing is submitted for it.
C1_FailFastWhenNotAlive ==
    [][(errHandling /\ epStatus # "UCS_OK")
          => (nreq' = nreq /\ registered' = registered)]_vars

C4_DestroyedLeavesNoRequest ==
    pcDtor = "done"
       => /\ \A r \in Issued : reqState[r] \in Terminal
          /\ inflightRequests = {}

C7_OwnerSubmitsDirectly ==
    [][\A r \in Req :
          (mode = "Thread" /\ reqState[r] = "None" /\ reqState'[r] # "None")
             => IF caller' = "owner"
                THEN reqState'[r] = "Submitted" /\ delayedQ' = delayedQ
                ELSE reqState'[r] = "Delayed"]_vars

\* C7: in Thread mode every operation passes through Delayed before Submitted,
\* whichever thread issued it: the send/receive call registers a delayed entry
\* and submits nothing, also when the progress owner makes the call.
C7_EveryCallIsDelayed ==
    [][\A r \in Req :
          mode = "Thread"
             => /\ (reqState[r] = "None" /\ reqState'[r] # "None")
                      => /\ reqState'[r] = "Delayed"
                         /\ Queued(r)' = 1
                         /\ submitted' = submitted
                /\ (reqState[r] # "Submitted" /\ reqState'[r] = "Submitted")
                      => reqState[r] = "Delayed"]_vars

\* In Thread mode the progress owner's call has registered its entry and the
\* request is Delayed.
C7_Witness ==
    /\ mode = "Thread"
    /\ caller = "owner"
    /\ nreq \in inCall
    /\ reqState[nreq] = "Delayed"
    /\ Queued(nreq) = 1

\* C8 as stated: in Polling mode, with no progress step so far, every request
\* issued is Submitted and its future is unresolved.
C8_PollingStaysSubmitted ==
    (mode = "Polling" /\ ~progressed)
       => \A r \in Issued : reqState[r] = "Submitted" /\ future[r] = "pending"

\* C8: in Polling mode, as long as no progress step runs, every request issued
\* stays Delayed: it is not submitted, it reaches no terminal state and its
\* future is unresolved.
C8_PollingStaysDelayed ==
    (mode = "Polling" /\ ~progressed)
       => /\ \A r \in Issued :
                reqState[r] = "Delayed" /\ future[r] = "pending" /\ Queued(r) = 1
          /\ submitted = <<>>
          /\ tpending = {}

\* In Polling mode, calls have returned and no progress step has run.
C8_Witness ==
    /\ mode = "Polling"
    /\ ~progressed
    /\ nreq >= 2
    /\ inCall = {}

LacksHandle(c) ==
    \/ getWorker(c) \in {"nullptr", "no_handle"}
    \/ c.factory = "createEndpointFromWorkerAddress"
          /\ c.target \in {"nullptr", "no_handle", "empty"}

\* C12: creating an endpoint from a null or handle-less worker or listener, or
\* from a null, handle-less or empty address, throws the not-initialized error
\* before ucp_ep_create is called and leaves no endpoint; and as long as there is
\* no endpoint with a valid handle, no send/receive has registered a delayed
\* entry, made a registry entry or submitted anything.
C12_NotInitializedFailsFast ==
    /\ [][(ctorCall # NoCall /\ ctorCall' = NoCall /\ LacksHandle(ctorCall))
             => /\ thrown' \in {"Worker not initialized", "Address not initialized"}
                /\ (thrown' = "Address not initialized")
                      <=> (getWorker(ctorCall) = "valid")
                /\ _handle' = "nullptr"]_vars
    /\ [](_handle = "nullptr"
             => /\ nreq = 0
                /\ registered = <<>>
                /\ delayedQ = <<>>
                /\ submitted = <<>>
                /\ inflightRequests = {})
    /\ [](thrown \in {"Worker not initialized", "Address not initialized"}
             => _handle = "nullptr")

\* A factory call has ended with the not-initialized error.
C12_Witness ==
    /\ ctorCall = NoCall
    /\ thrown = "Worker not initialized"
    /\ _handle = "nullptr"
    /\ nreq = 0

\* C13: every terminal transition of a request removes its entry from the
\* registry and resolves its future with the final outcome, so in every state a
\* terminal request has no entry in the registry and its future is resolved.
C13_TerminalLeavesRegistry ==
    \A r \in Req :
        reqState[r] \in Terminal
           => /\ r \notin inflightRequests
              /\ future[r] = outcome[r]
              /\ future[r] # "pending"

\* C14: the issuing thread's send/receive call never submits to the transport,
\* never processes an outcome and never runs a completion callback, so the call
\* returns with the request still not terminal; and with a dedicated progress
\* thread, the step that takes a request from Submitted to Completed or Errored
\* is a progress step of that thread, of no other.
C14_OnlyProgressOwnerCompletes ==
    /\ [][\A r \in Req :
             (reqState[r] = "None" /\ reqState'[r] # "None")
                => /\ reqState'[r] = "Delayed"
                   /\ submitted' = submitted
                   /\ tpending' = tpending
                   /\ progressThreads' = progressThreads
                   /\ \A q \in Req \ {r} : reqState'[q] = reqState[q]]_vars
    /\ [][\A r \in inCall : r \notin inCall' => reqState'[r] \notin Terminal]_vars
    /\ [][\A r \in Req :
             (mode \in ThreadModes
                 /\ reqState[r] = "Submitted"
                 /\ reqState'[r] \in {"Completed", "Errored"})
                => progressThreads' \subseteq {"owner"}]_vars

\* C15: every request that exists and is not terminal has an entry in the
\* registry, also between the registration of its delayed entry and the return
\* of the call; so the error callback, whenever it fires, cancels every request
\* that exists and is not terminal.
C15_LiveRequestIsRegistered ==
    /\ [](\A r \in Issued :
             reqState[r] \in {"Created", "Delayed", "Submitted"}
                => r \in inflightRequests)
    /\ [][errCalls' # errCalls
             => \A r \in Issued :
                   reqState[r] \in {"Created", "Delayed", "Submitted"}
                      => reqState'[r] = "Cancelled"]_vars

\* C19: with a dedicated progress thread (Thread and ThreadPolling), no other
\* thread ever runs a progress step of the worker, also not the thread that
\* destroys an endpoint and waits in its destructor for the close to finish.
C19_OnlyProgressThreadProgresses ==
    mode \in ThreadModes => progressThreads \subseteq {"owner"}

\* C16: accesses to the registry of an endpoint are mutually exclusive: while the
\* insert of an issuing thread is under way, no other thread runs the error
\* callback's cancellation over the registry or removes the entry of a request
\* that reaches a terminal state.
C16_RegistryAccessExclusive ==
    [][\A r \in Req :
          (inCall = {r} /\ inCall' = {r} /\ caller = "other")
             => /\ errCalls' = errCalls
                /\ \A q \in inflightRequests : q \in inflightRequests']_vars

\* ------------------------------------------------------------------ C17
\* The drain step that pops a Delayed request.
DrainsHead(r) ==
    /\ delayedQ # <<>>
    /\ Head(delayedQ).request = r
    /\ delayedQ' = Tail(delayedQ)
    /\ reqState[r] = "Delayed"

C18_StatusRecordedFirst ==
    /\ [][errCalls' = errCalls + 1
             => /\ epStatus' \in ErrKinds
                /\ cancelStatus' = epStatus'
                /\ closeCallback => closeStatus' = epStatus']_vars
    /\ [](errHandling /\ (errCalls > 0 \/ \E r \in Req : reqState[r] = "Cancelled")
            => ~isAlive)

\* C18 witness: the error callback has fired on an endpoint with error handling
\* and cancelled a request; the cancellation found the status that the endpoint
\* holds.
C18_Witness ==
    /\ errHandling
    /\ errCalls > 0
    /\ cancelStatus = epStatus
    /\ closeStatus = epStatus
    /\ epStatus = "UCS_ERR_CONNECTION_RESET"
    /\ \E r \in Req : reqState[r] = "Cancelled" /\ future[r] = "UCS_ERR_CANCELED"

\* ------------------------------------------------------------------ C20
\* C20: destroying an endpoint terminates. The destructor's close is a forced
\* close whatever the error-handling mode and the recorded status; a close that
\* is in progress keeps the destructor in its wait loop, driving progress, until
\* the close operation reports a status other than in-progress, which under
\* fair progress it does; the destructor then frees the close operation, once:
\* the free happens only at the exit of the wait loop, on a finished close
\* operation, and a destructor that has ended leaves no close operation unfreed.
C20_DestructorTerminates ==
    /\ [](pcDtor # "none" => closeMode = "UCP_EP_CLOSE_MODE_FORCE")
    /\ [](pcDtor = "loop" => closeReq \in {"inprogress", "done"})
    /\ [](pcDtor = "done" => closeReq \in {"none", "freed"})
    /\ [][closeReq' = "freed" /\ closeReq # "freed"
             => closeReq = "done" /\ pcDtor = "loop" /\ pcDtor' = "done"]_vars
    /\ [][closeReq = "freed" => closeReq' = "freed"]_vars
    /\ (pcDtor = "loop") ~> (pcDtor = "done")

\* C20 witness: the destructor of an endpoint that had recorded an error, with
\* error handling on, went through the wait loop, ended, and the close
\* operation is freed.
C20_Witness ==
    /\ pcDtor = "done"
    /\ closeReq = "freed"
    /\ closeMode = "UCP_EP_CLOSE_MODE_FORCE"
    /\ errHandling
    /\ epStatus # "UCS_OK"
    /\ progressed

\* ------------------------------------------------------------------ C21
\* C21: in every state of the endpoint, whatever the error-handling mode and
\* the recorded status, raiseOnError raises exactly when isAlive is false; what
\* it raises is the connection-reset error exactly when the recorded status is
\* the connection reset, and the generic error for any other status that is not
\* ok. Both are reads of the endpoint: they are functions of its state.
C21_RaisesIffNotAlive ==
    /\ (raiseOnError # "none") <=> ~isAlive
    /\ raiseOnError = "UCXXConnectionResetError"
          <=> (~isAlive /\ epStatus = "UCS_ERR_CONNECTION_RESET")
    /\ raiseOnError = "UCXXError"
          <=> (~isAlive /\ epStatus # "UCS_ERR_CONNECTION_RESET")

\* C21 witness: an endpoint with error handling whose connection was reset:
\* it is not alive and raiseOnError raises the connection-reset error.
C21_Witness ==
    /\ _handle = "valid"
    /\ errHandling
    /\ epStatus = "UCS_ERR_CONNECTION_RESET"
    /\ ~isAlive
    /\ raiseOnError = "UCXXConnectionResetError"

\* An endpoint without error handling that recorded an error: alive, and
\* raiseOnError returns.
C21_WitnessNoHandling ==
    /\ _handle = "valid"
    /\ ~errHandling
    /\ epStatus = "UCS_ERR_IO_ERROR"
    /\ isAlive
    /\ raiseOnError = "none"

\* ------------------------------------------------------------------ C22
\* C22: a close callback set with setCloseCallback is invoked at most once. A
\* firing of the error callback invokes the close callback exactly when one is
\* set, once, and leaves none set; nothing but the error callback invokes it;
\* and a close callback becomes set only by a step of setCloseCallback, which
\* changes nothing else. So a further firing invokes a close callback only if
\* setCloseCallback was called in between, and a firing with none set invokes
\* none.
C22_CloseCallbackAtMostOnce ==
    /\ [][errCalls' = errCalls + 1
             => /\ closeCalls' = (IF closeCallback THEN closeCalls + 1 ELSE closeCalls)
                /\ ~closeCallback']_vars
    /\ [][closeCalls' # closeCalls
             => errCalls' = errCalls + 1 /\ closeCallback]_vars
    /\ [][(~closeCallback /\ closeCallback')
             => /\ EndpointUsable
                /\ UNCHANGED <<ctorVars, workerVars, histErrVars, identVars, errHandling, epStatus,
                               pcDtor, closeReq, closeMode, nreq, caller, direction,
                               reqState, outcome, future, inCall, inflightRequests,
                               delayedQ, registered, submitted, tpending,
                               progressVars, resolves>>]_vars
    /\ [](closeCalls <= errCalls)

\* C22 witness: the error callback has fired twice and the close callback was
\* invoked once: one of the two firings found none set; none is set now.
C22_Witness ==
    /\ errCalls = 2
    /\ closeCalls = 1
    /\ ~closeCallback

\* The close callback was set again after its invocation and invoked again by
\* the second firing.
C22_WitnessSetAgain ==
    /\ errCalls = 2
    /\ closeCalls = 2

\* ------------------------------------------------------------------ C23
\* C23: the liveness of an endpoint is monotone. Without error handling
\* isAlive is true in every state. With error handling, once isAlive is false
\* no step makes it true again, whatever follows: calls, completions,
\* cancellations, further error callbacks, the destruction. The status starts
\* ok and is written only by the error callback, with a kind that is not ok,
\* and the error-handling flag is written only by the constructor.
C23_LivenessMonotone ==
    /\ [](~errHandling => isAlive)
    /\ [](errCalls = 0 => epStatus = "UCS_OK" /\ isAlive)
    /\ [][~isAlive => ~isAlive']_vars
    /\ [][epStatus' # epStatus
             => errCalls' = errCalls + 1 /\ epStatus' \in ErrKinds]_vars
    /\ [][errCalls' = errCalls + 1 => epStatus' \in ErrKinds]_vars
    /\ [][errHandling' # errHandling => ctorCall # NoCall /\ errCalls = 0]_vars

\* C23 witness: an endpoint with error handling that is not alive after two
\* error callbacks of different kinds, two calls and a cancellation.
C23_Witness ==
    /\ errHandling
    /\ errCalls = 2
    /\ cancelStatus = "UCS_ERR_IO_ERROR"
    /\ ~isAlive
    /\ nreq = 2
    /\ \E r \in Req : reqState[r] = "Cancelled"
    /\ \E r \in Req : reqState[r] \in {"Completed", "Errored"}

\* An endpoint without error handling that recorded an error and is alive.
C23_WitnessNoHandling ==
    /\ _handle = "valid"
    /\ ~errHandling
    /\ errCalls = 2
    /\ epStatus # "UCS_OK"
    /\ isAlive

\* ------------------------------------------------------------------ C24
\* C24: whatever requests were created and destroyed before, and whichever
\* address the new UCXXRequest object got, a fresh one or that of a destroyed
\* request, the request a send/receive call returns is registered on return:
\* it is in the registry, it is the only entry under its address, and it is
\* alive. No entry of a destroyed request is ever in the registry.
C24_RegisteredOnReturn ==
    /\ [][\A r \in inCall :
             r \notin inCall'
                => /\ r \in inflightRequests'
                   /\ r \notin destroyed'
                   /\ key'[r] # 0
                   /\ \A q \in inflightRequests' : key'[q] = key'[r] => q = r]_vars
    /\ [](\A q \in inflightRequests : q \notin destroyed)
    /\ [](\A q \in inflightRequests, r \in inflightRequests :
             key[q] = key[r] => q = r)

\* C24 witness: a request whose object has the address of an earlier request,
\* destroyed since, and which is registered under that address. The earlier
\* request had an entry when it was destroyed, having become terminal before
\* its insert.
C24_Witness ==
    \E r \in Req, q \in destroyed :
        /\ q # r
        /\ key[r] = key[q]
        /\ r \in inflightRequests
        /\ r \notin destroyed
        /\ reqState[r] \notin Terminal
====
